---------------------------- MODULE Spec2Model ----------------------------
(***************************************************************************)
(* The Test Trend Panel (TestSummary.tsx): component state, the result     *)
(* fetch life cycle, and the derived chart values (chartData,              *)
(* incidentData, referenceArea, getGraph).                                 *)
(*                                                                         *)
(* Optional timestamps and numbers are sequences: <<>> is undefined (or    *)
(* NaN), <<v>> is the value v.  Identifiers are strings, "undefined" being *)
(* the absent identifier.  Text is a sequence of one-character strings.    *)
(***************************************************************************)
EXTENDS Integers, Sequences, FiniteSets, TLC

VARIABLES
    data,               \* prop: the test case ({} when missing)
    entityThread,       \* useActivityFeedProvider().entityThread
    db,                 \* the server's stored results: timestamp -> incident id / "absent"
    results,            \* useState<TestCaseResult[]>
    dateRangeObject,    \* useState<DateRangeObject>
    isLoading,          \* useState(true)
    isGraphLoading,     \* useState(true)
    selectedTimeRange,  \* useState<string>
    getGraph,           \* the memoised chart region element
    effectPending,      \* the dateRangeObject effect is scheduled and has not run
    inFlight,           \* requests awaited by fetchTestResults, in issue order
    toast,              \* the error toast on screen
    lastStep,           \* history: the step taken last
    fetchCompleted      \* history: some fetch has settled

vars == <<data, entityThread, db, results, dateRangeObject, isLoading,
          isGraphLoading, selectedTimeRange, getGraph, effectPending,
          inFlight, toast, lastStep, fetchCompleted>>

---------------------------------------------------------------------------
(* Bounds *)

\* the date picker offers the ranges "last d days", d in 1..MaxDays
MaxDays == 3
\* requests that may be awaited at once
MaxInFlight == 2
\* threshold parameters of a test case
MaxParams == 2
\* threads held by the feed provider
MaxThreads == 2

---------------------------------------------------------------------------
(* Values *)

Undefined == "undefined"
NoValue == <<>>
NaN == <<>>

\* getCurrentMillis(), in days, frozen for the life of the panel
Now == MaxDays

\* getEpochMillisForPastDays(d) .. getCurrentMillis()
RangeOfDays(d) == [startTs |-> Now - d, endTs |-> Now]

Ranges == {RangeOfDays(d) : d \in 1..MaxDays}

\* PROFILER_FILTER_RANGE.<key>.title
TitleOfDays(d) == <<"last", d, "days">>

Titles == {TitleOfDays(d) : d \in 1..MaxDays}

defaultRange ==
    [initialRange |-> RangeOfDays(MaxDays), title |-> TitleOfDays(MaxDays)]

IncidentIds == {"i1", Undefined}

Timestamps == 0..(Now - 1)

\* what the server may hold for the test case
Databases == [Timestamps -> IncidentIds \cup {"absent"}]

ThreadTaskStatus == [Open |-> "Open", Closed |-> "Closed"]

Threads ==
    {[testCaseResolutionStatusId |-> s, status |-> ThreadTaskStatus.Open,
      closedAt |-> NoValue] : s \in IncidentIds}
    \cup
    {[testCaseResolutionStatusId |-> s, status |-> ThreadTaskStatus.Closed,
      closedAt |-> <<Now>>] : s \in IncidentIds}

SeqsUpTo(S, n) == UNION {[1..k -> S] : k \in 0..n}

ThreadLists == SeqsUpTo(Threads, MaxThreads)

ParamStrings == { <<>>, <<"1", "2">>, <<"-", "3", "a">> }

ParamLists ==
    SeqsUpTo({[name |-> "minValue", value |-> s] : s \in ParamStrings}, MaxParams)

EmptyData == <<>>

DataProps ==
    {[fullyQualifiedName |-> "fqn", parameterValues |-> p] : p \in ParamLists}

DefaultData ==
    [fullyQualifiedName |-> "fqn",
     parameterValues |-> <<[name |-> "minValue", value |-> <<"1", "2">>]>>]

---------------------------------------------------------------------------
(* lodash and JavaScript helpers *)

isEmpty(d) == DOMAIN d = {}

isEqual(a, b) == a = b

pick(r) == [startTs |-> r.startTs, endTs |-> r.endTs]

Reverse(s) == [i \in 1..Len(s) |-> s[Len(s) + 1 - i]]

IsDigit(c) == c \in {"0", "1", "2", "3", "4", "5", "6", "7", "8", "9"}

DigitVal(c) ==
    CASE c = "0" -> 0 [] c = "1" -> 1 [] c = "2" -> 2 [] c = "3" -> 3
      [] c = "4" -> 4 [] c = "5" -> 5 [] c = "6" -> 6 [] c = "7" -> 7
      [] c = "8" -> 8 [] c = "9" -> 9

RECURSIVE SkipWhitespace(_)
SkipWhitespace(s) ==
    IF s # <<>> /\ Head(s) = " " THEN SkipWhitespace(Tail(s)) ELSE s

RECURSIVE ParseDigits(_, _)
ParseDigits(s, acc) ==
    IF s # <<>> /\ IsDigit(Head(s))
    THEN ParseDigits(Tail(s), 10 * acc + DigitVal(Head(s)))
    ELSE acc

\* parseInt(text): leading blanks, a sign, then the longest run of decimal
\* digits; NaN when there is none (texts here carry no radix prefix)
parseInt(text) ==
    LET t == SkipWhitespace(text)
        signed == t # <<>> /\ Head(t) \in {"-", "+"}
        u == IF signed THEN Tail(t) ELSE t
    IN  IF u = <<>> \/ ~IsDigit(Head(u)) THEN NaN
        ELSE IF signed /\ Head(t) = "-" THEN <<0 - ParseDigits(u, 0)>>
        ELSE <<ParseDigits(u, 0)>>

\* first(array)?.name
FirstName(rows) == IF rows = <<>> THEN NoValue ELSE Head(rows).name

RECURSIVE Filter(_, _)
Filter(s, id) ==
    IF s = <<>> THEN <<>>
    ELSE IF Head(s).incidentId = id THEN <<Head(s)>> \o Filter(Tail(s), id)
    ELSE Filter(Tail(s), id)

\* array.find(pred): the first thread whose resolution status id is id
RECURSIVE FindTask(_, _)
FindTask(threads, id) ==
    IF threads = <<>> THEN Undefined
    ELSE IF Head(threads).testCaseResolutionStatusId = id THEN Head(threads)
    ELSE FindTask(Tail(threads), id)

---------------------------------------------------------------------------
(* The REST call "list test-case results": the stored results whose        *)
(* timestamp lies in the range, newest first.                              *)

RECURSIVE ListFrom(_, _, _)
ListFrom(d, t, startTs) ==
    IF t < startTs \/ t < 0 THEN <<>>
    ELSE IF t \in DOMAIN d /\ d[t] # "absent"
    THEN <<[timestamp |-> <<t>>, incidentId |-> d[t]]>> \o ListFrom(d, t - 1, startTs)
    ELSE ListFrom(d, t - 1, startTs)

getListTestCaseResults(d, range) == ListFrom(d, range.endTs, range.startTs)


---------------------------------------------------------------------------
(* Derived values (useMemo) *)

\* one chart point per result, then reversed; the metric fields of a point
\* (status, result values, row counts) are copied from its result and play
\* no part in the order, so a point keeps name, incidentId and task
\* faulty variant: the points are left in the order of the response
chartDataNotReversed(res, threads) ==
    [data |-> [i \in 1..Len(res) |->
                [name |-> res[i].timestamp,
                 incidentId |-> res[i].incidentId,
                 task |-> FindTask(threads, res[i].incidentId)]]]

chartDataOf(res, threads) ==
    [data |-> Reverse([i \in 1..Len(res) |->
                [name |-> res[i].timestamp,
                 incidentId |-> res[i].incidentId,
                 task |-> FindTask(threads, res[i].incidentId)]])]

chartData == chartDataOf(results, entityThread)

\* faulty variant: the end bound is set only for a thread with matching rows
incidentDataEndNeedsMatch(chart, threads) ==
    [i \in 1..Len(threads) |->
        LET task == threads[i]
            failedRows == Filter(chart.data, task.testCaseResolutionStatusId)
            x2 == IF task.status = ThreadTaskStatus.Closed /\ failedRows # <<>>
                  THEN task.closedAt ELSE NoValue
        IN  [x1 |-> FirstName(failedRows), x2 |-> x2, task |-> task]]

incidentDataOf(chart, threads) ==
    [i \in 1..Len(threads) |->
        LET task == threads[i]
            failedRows == Filter(chart.data, task.testCaseResolutionStatusId)
            x2 == IF task.status = ThreadTaskStatus.Closed
                  THEN task.closedAt ELSE NoValue
        IN  [x1 |-> FirstName(failedRows), x2 |-> x2, task |-> task]]

incidentData == incidentDataOf(chartData, entityThread)

\* the y1, y2, ... props spread on the ReferenceArea: key <<"y", i>> is y<i>
yValuesOf(params) ==
    [k \in {<<"y", i>> : i \in 1..Len(params)} |-> parseInt(params[k[2]].value)]

referenceArea(d) ==
    LET params == IF "parameterValues" \in DOMAIN d
                  THEN d.parameterValues ELSE <<>>
    IN  IF Len(params) # 0 /\ Len(params) < 2
        THEN [type |-> "ReferenceLine", label |-> params[1].name]
        ELSE [type |-> "ReferenceArea", yValues |-> yValuesOf(params)]

\* the LineChart element of getGraph
LineChartOf(res, threads, d) ==
    LET chart == chartDataOf(res, threads)
        incidents == incidentDataOf(chart, threads)
    IN  [type |-> "LineChart",
         data |-> chart.data,
         reference |-> referenceArea(d),
         incidents |-> [i \in 1..Len(incidents) |->
                           [type |-> "ReferenceArea",
                            x1 |-> incidents[i].x1,
                            x2 |-> incidents[i].x2]]]

\* faulty variant: the placeholder names the range the panel started with
ComputeGraphInitialLabel(graphLoading, timeRange, res, threads, d) ==
    IF graphLoading THEN [type |-> "Loader"]
    ELSE IF Len(res) # 0 THEN LineChartOf(res, threads, d)
    ELSE [type |-> "ErrorPlaceHolder", days |-> defaultRange.title]

\* the body of the getGraph memo
ComputeGraph(graphLoading, timeRange, res, threads, d) ==
    IF graphLoading THEN [type |-> "Loader"]
    ELSE IF Len(res) # 0 THEN LineChartOf(res, threads, d)
    ELSE [type |-> "ErrorPlaceHolder", days |-> timeRange]

\* getGraph is recomputed when one of its dependencies [isGraphLoading,
\* selectedTimeRange, incidentData, chartData] changed; setResults stores a
\* new array, so a set results always counts as a change
Memo(graphLoading, timeRange, res, resultsSet, d) ==
    IF graphLoading # isGraphLoading \/ timeRange # selectedTimeRange \/ resultsSet
    THEN ComputeGraph(graphLoading, timeRange, res, entityThread, d)
    ELSE getGraph

\* what the component returns for the panel column
View ==
    IF isLoading THEN [type |-> "Loader"]
    ELSE [type |-> "Panel", picker |-> "DatePickerMenu", graph |-> getGraph]

---------------------------------------------------------------------------
(* Initial states *)

Step(name) == [name |-> name, request |-> <<>>]

Settled(name, req) == [name |-> name, request |-> <<req>>]

InitWith(d, threads, database) ==
    /\ data = d
    /\ entityThread = threads
    /\ db = database
    /\ results = <<>>
    /\ dateRangeObject = defaultRange.initialRange
    /\ isLoading = TRUE
    /\ isGraphLoading = TRUE
    /\ selectedTimeRange = defaultRange.title
    /\ getGraph = ComputeGraph(TRUE, defaultRange.title, <<>>, threads, d)
    /\ effectPending = TRUE
    /\ inFlight = <<>>
    /\ toast = "none"
    /\ lastStep = Step("mount")
    /\ fetchCompleted = FALSE

LifecycleData == {EmptyData, DefaultData}

LifecycleDatabase ==
    [t \in Timestamps |-> IF t = 0 THEN "i1" ELSE IF t = 1 THEN Undefined ELSE "absent"]

LifecycleThreads ==
    <<[testCaseResolutionStatusId |-> "i1", status |-> ThreadTaskStatus.Closed,
       closedAt |-> <<Now>>]>>

Init ==
    \E d \in LifecycleData : InitWith(d, LifecycleThreads, LifecycleDatabase)

InitRender ==
    \E d \in DataProps, threads \in ThreadLists, database \in Databases :
        InitWith(d, threads, database)

---------------------------------------------------------------------------
(* Steps *)

RemoveAt(s, i) == [j \in 1..(Len(s) - 1) |-> IF j < i THEN s[j] ELSE s[j + 1]]

\* history: the requests still awaited saw results replaced under them
Overwritten(s) == [j \in 1..Len(s) |-> [s[j] EXCEPT !.overwritten = TRUE]]

NewRequest(dateRangeObj) ==
    [range |-> pick(dateRangeObj), startResults |-> results, overwritten |-> FALSE]

\* faulty variant: the request is issued whatever the entity is
fetchTestResultsUnguarded(dateRangeObj) ==
    /\ isGraphLoading' = TRUE
    /\ inFlight' = Append(inFlight, NewRequest(dateRangeObj))
    /\ getGraph' = Memo(TRUE, selectedTimeRange, results, FALSE, data)
    /\ lastStep' = Step("requested")
    /\ UNCHANGED <<results, isLoading>>

\* faulty variant: a refresh raises the first-load flag too
fetchTestResultsWholePanel(dateRangeObj) ==
    IF isEmpty(data)
    THEN /\ lastStep' = Step("skipped")
         /\ UNCHANGED <<results, isLoading, isGraphLoading, inFlight, getGraph>>
    ELSE /\ isGraphLoading' = TRUE
         /\ isLoading' = TRUE
         /\ inFlight' = Append(inFlight, NewRequest(dateRangeObj))
         /\ getGraph' = Memo(TRUE, selectedTimeRange, results, FALSE, data)
         /\ lastStep' = Step("requested")
         /\ UNCHANGED results

\* fetchTestResults up to its await
fetchTestResults(dateRangeObj) ==
    IF isEmpty(data)
    THEN /\ lastStep' = Step("skipped")
         /\ UNCHANGED <<results, isLoading, isGraphLoading, inFlight, getGraph>>
    ELSE /\ isGraphLoading' = TRUE
         /\ inFlight' = Append(inFlight, NewRequest(dateRangeObj))
         /\ getGraph' = Memo(TRUE, selectedTimeRange, results, FALSE, data)
         /\ lastStep' = Step("requested")
         /\ UNCHANGED <<results, isLoading>>

\* useEffect(..., [dateRangeObject]): runs after mount and after each change
useEffectDateRange ==
    /\ effectPending
    /\ effectPending' = FALSE
    /\ fetchTestResults(dateRangeObject)
    /\ UNCHANGED <<data, entityThread, db, dateRangeObject, selectedTimeRange,
                   toast, fetchCompleted>>

\* faulty variant: a response for a range that is no longer selected is dropped
resolveSuccessLatestOnly(i) ==
    /\ ~effectPending
    /\ i \in 1..Len(inFlight)
    /\ LET fresh == inFlight[i].range = pick(dateRangeObject)
       IN  /\ results' = IF fresh THEN getListTestCaseResults(db, inFlight[i].range)
                         ELSE results
           /\ inFlight' = IF fresh THEN Overwritten(RemoveAt(inFlight, i))
                          ELSE RemoveAt(inFlight, i)
           /\ getGraph' = Memo(FALSE, selectedTimeRange, results', fresh, data)
    /\ isLoading' = FALSE
    /\ isGraphLoading' = FALSE
    /\ lastStep' = Settled("success", inFlight[i])
    /\ fetchCompleted' = TRUE
    /\ UNCHANGED <<data, entityThread, db, dateRangeObject, selectedTimeRange,
                   effectPending, toast>>

\* the awaited call returns: setResults, then the finally block
resolveSuccess(i) ==
    /\ ~effectPending
    /\ i \in 1..Len(inFlight)
    /\ results' = getListTestCaseResults(db, inFlight[i].range)
    /\ isLoading' = FALSE
    /\ isGraphLoading' = FALSE
    /\ inFlight' = Overwritten(RemoveAt(inFlight, i))
    /\ getGraph' = Memo(FALSE, selectedTimeRange, results', TRUE, data)
    /\ lastStep' = Settled("success", inFlight[i])
    /\ fetchCompleted' = TRUE
    /\ UNCHANGED <<data, entityThread, db, dateRangeObject, selectedTimeRange,
                   effectPending, toast>>

\* faulty variant: the flags are cleared on the success path only
resolveFailureNoFinally(i) ==
    /\ ~effectPending
    /\ i \in 1..Len(inFlight)
    /\ toast' = "error"
    /\ inFlight' = RemoveAt(inFlight, i)
    /\ lastStep' = Settled("failure", inFlight[i])
    /\ fetchCompleted' = TRUE
    /\ UNCHANGED <<data, entityThread, db, results, dateRangeObject, isLoading,
                   isGraphLoading, selectedTimeRange, getGraph, effectPending>>

\* faulty variant: the catch block empties the results
resolveFailureClearsResults(i) ==
    /\ ~effectPending
    /\ i \in 1..Len(inFlight)
    /\ toast' = "error"
    /\ results' = <<>>
    /\ isLoading' = FALSE
    /\ isGraphLoading' = FALSE
    /\ inFlight' = RemoveAt(inFlight, i)
    /\ getGraph' = Memo(FALSE, selectedTimeRange, results', TRUE, data)
    /\ lastStep' = Settled("failure", inFlight[i])
    /\ fetchCompleted' = TRUE
    /\ UNCHANGED <<data, entityThread, db, dateRangeObject, selectedTimeRange,
                   effectPending>>

\* the awaited call throws: showErrorToast, then the finally block
resolveFailure(i) ==
    /\ ~effectPending
    /\ i \in 1..Len(inFlight)
    /\ toast' = "error"
    /\ isLoading' = FALSE
    /\ isGraphLoading' = FALSE
    /\ inFlight' = RemoveAt(inFlight, i)
    /\ getGraph' = Memo(FALSE, selectedTimeRange, results, FALSE, data)
    /\ lastStep' = Settled("failure", inFlight[i])
    /\ fetchCompleted' = TRUE
    /\ UNCHANGED <<data, entityThread, db, results, dateRangeObject,
                   selectedTimeRange, effectPending>>

\* the date picker is rendered only when isLoading is false
handleDateRangeChange(value) ==
    /\ ~effectPending
    /\ ~isLoading
    /\ Len(inFlight) < MaxInFlight
    /\ IF ~isEqual(value, dateRangeObject)
       THEN dateRangeObject' = value /\ effectPending' = TRUE
       ELSE UNCHANGED <<dateRangeObject, effectPending>>
    /\ lastStep' = Step("dateRange")
    /\ UNCHANGED <<data, entityThread, db, results, isLoading, isGraphLoading,
                   selectedTimeRange, getGraph, inFlight, toast, fetchCompleted>>

handleSelectedTimeRange(range) ==
    /\ ~effectPending
    /\ ~isLoading
    /\ selectedTimeRange' = range
    /\ getGraph' = Memo(isGraphLoading, range, results, FALSE, data)
    /\ lastStep' = Step("timeRange")
    /\ UNCHANGED <<data, entityThread, db, results, dateRangeObject, isLoading,
                   isGraphLoading, effectPending, inFlight, toast, fetchCompleted>>

\* the parent renders the panel with another test case
propsUpdate(d) ==
    /\ ~effectPending
    /\ d # data
    /\ data' = d
    /\ lastStep' = Step("props")
    /\ UNCHANGED <<entityThread, db, results, dateRangeObject, isLoading,
                   isGraphLoading, selectedTimeRange, getGraph, effectPending,
                   inFlight, toast, fetchCompleted>>

\* the transient toast goes away
dismissToast ==
    /\ ~effectPending
    /\ toast = "error"
    /\ toast' = "none"
    /\ lastStep' = Step("dismiss")
    /\ UNCHANGED <<data, entityThread, db, results, dateRangeObject, isLoading,
                   isGraphLoading, selectedTimeRange, getGraph, effectPending,
                   inFlight, fetchCompleted>>

Next ==
    \/ useEffectDateRange
    \/ \E i \in 1..MaxInFlight : resolveSuccess(i)
    \/ \E i \in 1..MaxInFlight : resolveFailure(i)
    \/ \E value \in Ranges : handleDateRangeChange(value)
    \/ \E range \in Titles : handleSelectedTimeRange(range)
    \/ \E d \in LifecycleData : propsUpdate(d)
    \/ dismissToast

Spec == Init /\ [][Next]_vars

\* the panel mounted with any test case, feed threads and stored results,
\* up to the first fetch of the default range settling
NextRender ==
    \/ useEffectDateRange
    \/ \E i \in 1..MaxInFlight : resolveSuccess(i)
    \/ \E i \in 1..MaxInFlight : resolveFailure(i)

SpecRender == InitRender /\ [][NextRender]_vars

---------------------------------------------------------------------------
(* Properties *)

SettledRequest == lastStep.request[1]

\* C1: a date-range change leaves the awaited requests awaited (only a
\* settling request leaves inFlight), and a response is stored in results
\* when it arrives, whatever range is selected by then.
C1_ResponseAppliedWheneverItArrives ==
    /\ [](lastStep.name = "success"
            => results = getListTestCaseResults(db, SettledRequest.range))
    /\ [][/\ lastStep'.name = "dateRange" => inFlight' = inFlight
          /\ Len(inFlight') < Len(inFlight)
                => lastStep'.name \in {"success", "failure"}]_vars

\* C1 witness: the response of an earlier range arrived last; nothing is
\* awaited any more, and results holds that earlier range's records, which
\* are not the records of the selected range.
C1_StaleResultsShown ==
    /\ lastStep.name = "success"
    /\ inFlight = <<>>
    /\ ~effectPending
    /\ ~isGraphLoading
    /\ SettledRequest.range # pick(dateRangeObject)
    /\ results = getListTestCaseResults(db, SettledRequest.range)
    /\ results # getListTestCaseResults(db, pick(dateRangeObject))

\* C2 as stated: when an invocation of fetchTestResults has finished, be it
\* by a response, by a failure or without a request, both flags are false.
C2_FlagsClearedAfterEveryInvocation ==
    lastStep.name \in {"skipped", "success", "failure"}
        => ~isLoading /\ ~isGraphLoading

\* C2 amended: when an invocation that issued its request has finished, by
\* a response or by a failure, both flags are false.
C2_FlagsClearedWhenRequestSettles ==
    lastStep.name \in {"success", "failure"} => ~isLoading /\ ~isGraphLoading

\* C2 witness: the first fetch failed and the flags are down.
C2_FirstFetchFailed ==
    /\ lastStep.name = "failure"
    /\ SettledRequest.startResults = <<>>
    /\ results = <<>>
    /\ ~isLoading
    /\ ~isGraphLoading

\* C3 as stated: after a failed fetch the error toast is up and results is
\* what it was when that fetch started.
C3_FailureRestoresStartResults ==
    lastStep.name = "failure"
        => toast = "error" /\ results = SettledRequest.startResults

\* C3 amended: a failing fetch shows the error toast and leaves results as
\* it was when the failure arrived, which is its value from the start of
\* that fetch unless another fetch succeeded in between; besides the toast
\* only the loading flags change.
C3_FailureKeepsResults ==
    /\ [][lastStep'.name = "failure" /\ Len(inFlight') < Len(inFlight)
            => /\ toast' = "error"
               /\ results' = results
               /\ UNCHANGED <<data, entityThread, dateRangeObject,
                              selectedTimeRange, effectPending>>]_vars
    /\ [](lastStep.name = "failure" /\ ~SettledRequest.overwritten
            => results = SettledRequest.startResults)

\* C3 witness: a refresh failed while records of an earlier fetch are shown.
C3_FailedRefreshKeepsRecords ==
    /\ lastStep.name = "failure"
    /\ toast = "error"
    /\ results # <<>>
    /\ results = SettledRequest.startResults
    /\ ~isGraphLoading

\* C4: when the effect runs fetchTestResults with an empty entity, no
\* request is issued and results, isLoading and isGraphLoading stay as
\* they are.
C4_EmptyEntityShortCircuits ==
    [][effectPending /\ ~effectPending' /\ isEmpty(data)
        => /\ inFlight' = inFlight
           /\ results' = results
           /\ isLoading' = isLoading
           /\ isGraphLoading' = isGraphLoading]_vars

\* C4 witness: the entity became empty and the fetch for a newly selected
\* range was skipped.
C4_SkippedAfterDateRangeChange ==
    /\ lastStep.name = "skipped"
    /\ isEmpty(data)
    /\ dateRangeObject # defaultRange.initialRange
    /\ ~isLoading
    /\ inFlight = <<>>

\* C5: chartData.data has one point per fetched result, the points being
\* the results in reverse, and the timestamps (name) of the points ascend
\* strictly; the drawn chart plots these points.
C5_OnePointPerResultAscending ==
    LET points == chartData.data
    IN  /\ Len(points) = Len(results)
        /\ \A i \in 1..Len(points) :
              points[i].name = results[Len(results) + 1 - i].timestamp
        /\ \A i \in 1..(Len(points) - 1) :
              points[i].name[1] < points[i + 1].name[1]
        /\ getGraph.type = "LineChart" => getGraph.data = points

\* C5 witness: a response of several records is drawn.
C5_SeveralPointsDrawn ==
    /\ lastStep.name = "success"
    /\ Len(results) >= 2
    /\ getGraph.type = "LineChart"
    /\ Len(getGraph.data) = Len(results)

\* a ReferenceArea without any bound marks nothing
MarksNothing(el) == el.type = "ReferenceArea" /\ DOMAIN el.yValues = {}

\* C6 as stated: in the drawn chart, no parameter gives no marker; one
\* parameter, a ReferenceLine at the parse of its value; two or more, a
\* ReferenceArea bounded by y1 and y2 alone, the parses of the first two
\* values.
C6_ReferenceMarkerByParameterCount ==
    getGraph.type = "LineChart" /\ getGraph.reference = referenceArea(data)
        => LET params == data.parameterValues
               el == getGraph.reference
           IN  /\ Len(params) = 0 => MarksNothing(el)
               /\ Len(params) = 1
                     => /\ el.type = "ReferenceLine"
                        /\ "y" \in DOMAIN el
                        /\ el.y = parseInt(params[1].value)
               /\ Len(params) >= 2
                     => /\ el.type = "ReferenceArea"
                        /\ DOMAIN el.yValues = {<<"y", 1>>, <<"y", 2>>}
                        /\ el.yValues[<<"y", 1>>] = parseInt(params[1].value)
                        /\ el.yValues[<<"y", 2>>] = parseInt(params[2].value)

\* the incident ReferenceArea of thread i bounds a region
OverlayRegion(i) ==
    /\ getGraph.type = "LineChart"
    /\ i \in DOMAIN getGraph.incidents
    /\ (getGraph.incidents[i].x1 # NoValue \/ getGraph.incidents[i].x2 # NoValue)

MatchingPoints(i) ==
    Filter(chartData.data, entityThread[i].testCaseResolutionStatusId)

\* C7 as stated: in the chart, a thread has an overlay region only if some
\* chart point carries its resolution status id, and the region then
\* starts at the first such point.
C7_OverlayNeedsMatchingPoint ==
    getGraph.type = "LineChart"
        => \A i \in 1..Len(entityThread) :
              /\ OverlayRegion(i) => MatchingPoints(i) # <<>>
              /\ MatchingPoints(i) # <<>>
                    => getGraph.incidents[i].x1 = Head(MatchingPoints(i)).name

\* C8: the end bound of a thread's overlay is its closedAt when its task
\* status is Closed and undefined otherwise, whatever results holds; the
\* drawn chart carries that bound.
C8_EndBoundFromTaskStatus ==
    /\ Len(incidentData) = Len(entityThread)
    /\ \A i \in 1..Len(entityThread) :
          /\ incidentData[i].x2 =
                IF entityThread[i].status = ThreadTaskStatus.Closed
                THEN entityThread[i].closedAt ELSE NoValue
          /\ getGraph.type = "LineChart"
                => getGraph.incidents[i].x2 = incidentData[i].x2

\* C8 witness: the chart is drawn with a closed thread that matches no
\* point and an open thread.
C8_ClosedAndOpenThreadDrawn ==
    /\ getGraph.type = "LineChart"
    /\ \E i, j \in 1..Len(entityThread) :
          /\ entityThread[i].status = ThreadTaskStatus.Closed
          /\ incidentData[i].x1 = NoValue
          /\ incidentData[i].x2 = <<Now>>
          /\ entityThread[j].status = ThreadTaskStatus.Open
          /\ incidentData[j].x2 = NoValue

\* C9: with no graph load in progress, empty results (the last applied
\* response held no record, or none was applied) show the placeholder
\* naming selectedTimeRange, and non-empty results show the chart.
C9_PlaceholderOrChart ==
    /\ lastStep.name = "success" /\ getListTestCaseResults(db, SettledRequest.range) = <<>>
          => results = <<>>
    /\ ~isGraphLoading
          => /\ results = <<>>
                => View = [type |-> "Panel", picker |-> "DatePickerMenu",
                           graph |-> [type |-> "ErrorPlaceHolder",
                                      days |-> selectedTimeRange]]
             /\ results # <<>>
                => View.type = "Panel" /\ View.graph.type = "LineChart"

\* C9 witness: an empty response is shown under a range label other than
\* the initial one.
C9_EmptyResponseShown ==
    /\ lastStep.name = "success"
    /\ results = <<>>
    /\ ~isGraphLoading
    /\ selectedTimeRange # defaultRange.title
    /\ getGraph = [type |-> "ErrorPlaceHolder", days |-> selectedTimeRange]

\* C10: isLoading is true exactly until the first fetch settles and never
\* turns true again; a refresh raises isGraphLoading only, and a panel once
\* shown is not replaced by the whole-panel loader.
C10_FirstLoadFlagNeverReturns ==
    /\ [](isLoading <=> ~fetchCompleted)
    /\ [][/\ ~isLoading => ~isLoading'
          /\ View.type = "Panel" => View'.type = "Panel"
          /\ lastStep'.name = "requested" /\ Len(inFlight') > Len(inFlight)
                => isGraphLoading' /\ isLoading' = isLoading]_vars

\* C10 witness: a refresh for a newly selected range is awaited behind the
\* date picker.
C10_RefreshBehindPicker ==
    /\ lastStep.name = "requested"
    /\ fetchCompleted
    /\ dateRangeObject # defaultRange.initialRange
    /\ ~isLoading
    /\ isGraphLoading
    /\ View.type = "Panel"

\* C11 as stated: while a request is awaited isGraphLoading is true, and
\* the chart region shows the loader, neither the chart nor the placeholder.
C11_LoaderWhileAnyFetchAwaited ==
    inFlight # <<>>
        => /\ isGraphLoading
           /\ getGraph.type = "Loader"
           /\ View.type = "Panel" => View.graph.type = "Loader"

============================================================================
